---------------------------- MODULE Spec2Model ----------------------------
(***************************************************************************)
(* State-machine model of the two RAG scripts of the repository:           *)
(*   - the chat script    (rag-langchain-ollama.py):  load_pdf_documents,  *)
(*     split_documents, create_vector_database, initialize_llm,            *)
(*     create_rag_chain, run_interactive_chat, main;                       *)
(*   - the vision script  (rag-gemma-multimodel-ollma.py): ingest_pdf,     *)
(*     create_rag_db, query_rag and the __main__ execution block.          *)
(* One behaviour is one run of one of the two scripts (variable script).   *)
(* Text is modelled as a sequence of one-character strings where the code  *)
(* inspects characters (strip, lower) and by its length where it only      *)
(* moves text around.  Calls into the PDF, embedding, vector-store and LLM *)
(* libraries are nondeterministic: they return or raise.                   *)
(***************************************************************************)
EXTENDS Integers, Sequences, FiniteSets, TLC

VARIABLES
    script,            \* which script this run executes: "chat" or "vision"
    \* ---- chat script -------------------------------------------------
    pc,                \* position of main / run_interactive_chat
    pdf_paths,         \* PDF_FILES handed to load_pdf_documents
    idx,               \* position of the for loop over pdf_paths (1-based)
    all_documents,     \* load_pdf_documents: all_documents
    successful_loads,  \* load_pdf_documents: successful_loads
    diagnostics,       \* lines printed by load_pdf_documents, in order
    chunks,            \* result of split_documents
    vector_db,         \* chunks held by the Chroma store of the chat script
    stages_done,       \* the stages of main that have returned, in order
    exit_code,         \* "none" while running, else the process exit status
    line,              \* the text input() returned last
    question,          \* run_interactive_chat: question (stripped line)
    event,             \* what the last step of the chat loop did
    asked,             \* number of lines read at the prompt
    failures,          \* number of consecutive questions whose invoke raised
    llm_calls,         \* generation calls made for the last question
    last_prompt,       \* the prompt handed to the llm for the last question
    \* ---- vision script -----------------------------------------------
    vpc,               \* position of the __main__ block
    poppler_exists,    \* os.path.exists(POPPLER_PATH)
    store_at_start,    \* os.path.exists(CHROMA_PATH) when the run started
    store_exists,      \* os.path.exists(CHROMA_PATH) now
    store_docs,        \* documents held by the persisted store
    pages,             \* number of page images convert_from_path returned
    page_i,            \* enumerate index i of the page loop (0-based)
    failed_pages,      \* 1-based numbers of the pages whose transcription raised
    documents,         \* ingest_pdf: documents
    vlog,              \* calls made by the run, in order
    vexit,             \* "none" while running, else how the process ended
    results,           \* query_rag: results of similarity_search
    gen_calls          \* generation calls made by query_rag

chatVars == <<pc, pdf_paths, idx, all_documents, successful_loads, diagnostics,
              chunks, vector_db, stages_done, exit_code, line, question, event,
              asked, failures, llm_calls, last_prompt>>

visionVars == <<vpc, poppler_exists, store_at_start, store_exists, store_docs,
                pages, page_i, failed_pages, documents, vlog, vexit, results,
                gen_calls>>

vars == <<script, chatVars, visionVars>>

-----------------------------------------------------------------------------
(* Bounds of the model *)

MaxPaths == 3

MaxQuestions == 3

MaxPages == 3

MaxStored == 2

(* Program constants *)

CHUNK_SIZE == 1000

CHUNK_OVERLAP == 100

\* vector_db.as_retriever() is called without search_kwargs: the library's k
RETRIEVER_K == 4

\* vector_db.similarity_search(query, k=3)
QUERY_K == 3

-----------------------------------------------------------------------------
(* Generic helpers *)

Min(a, b) == IF a < b THEN a ELSE b

SeqsUpTo(S, n) == UNION {[1..m -> S] : m \in 0..n}

-----------------------------------------------------------------------------
(* The file system and the PDF loader seen by load_pdf_documents *)

Paths == {"missing.pdf", "corrupt.pdf", "empty.pdf", "blank.pdf", "text.pdf"}

\* os.path.exists(pdf_path)
PathExists(p) == p # "missing.pdf"

\* PyPDFLoader(pdf_path).load() raises for this file
LoadRaises(p) == p = "corrupt.pdf"

\* PyPDFLoader(pdf_path).load(): one Document per page, in document order,
\* with the page text (here its length in characters) and its provenance.
LoadedPages(p) ==
    CASE p = "empty.pdf" -> << >>
      [] p = "blank.pdf" -> << [source |-> p, page |-> 0, length |-> 0] >>
      [] p = "text.pdf"  -> << [source |-> p, page |-> 0, length |-> 600],
                               [source |-> p, page |-> 1, length |-> 1500] >>
      [] OTHER           -> << >>

-----------------------------------------------------------------------------
(* split_documents: sliding windows of chunk_size with the given overlap *)

RECURSIVE Windows(_, _)
Windows(len, start) ==
    IF len = 0 THEN << >>
    ELSE IF start + CHUNK_SIZE >= len
         THEN << [start |-> start, end |-> len] >>
         ELSE << [start |-> start, end |-> start + CHUNK_SIZE] >>
              \o Windows(len, start + CHUNK_SIZE - CHUNK_OVERLAP)

SplitPage(doc) ==
    LET w == Windows(doc.length, 0)
    IN  [j \in 1..Len(w) |-> [source |-> doc.source, page |-> doc.page,
                              start |-> w[j].start, end |-> w[j].end]]

RECURSIVE SplitAll(_)
SplitAll(docs) ==
    IF docs = << >> THEN << >>
    ELSE SplitPage(Head(docs)) \o SplitAll(Tail(docs))

-----------------------------------------------------------------------------
(* Retrieval and context assembly *)

\* The answers a store holding `store` may give to a top-k similarity search:
\* min(k, n) distinct entries of the store; which ones, and in which order,
\* is the store's ranking (drawn from the rotations of the store).
TopK(store, k) ==
    LET n == Len(store)
        m == Min(k, n)
    IN  IF n = 0 THEN { << >> }
        ELSE { [j \in 1..m |-> store[((s + j - 2) % n) + 1]] : s \in 1..n }

Separator == [kind |-> "sep", source |-> "", page |-> 0]

Piece(d) == [kind |-> "text", source |-> d.source, page |-> d.page]

\* "\n\n".join(doc.page_content for doc in docs)
RECURSIVE format_docs(_)
format_docs(docs) ==
    IF docs = << >> THEN << >>
    ELSE IF Len(docs) = 1 THEN << Piece(docs[1]) >>
    ELSE << Piece(docs[1]), Separator >> \o format_docs(Tail(docs))

NoPrompt == [context |-> << >>, question |-> << >>, sent |-> FALSE]

-----------------------------------------------------------------------------
(* The lines typed at the prompt, and str.strip / str.lower *)

Whitespace == {" ", "\t", "\n"}

RECURSIVE lstrip(_)
lstrip(s) ==
    IF s = << >> THEN s
    ELSE IF Head(s) \in Whitespace THEN lstrip(Tail(s)) ELSE s

RECURSIVE rstrip(_)
rstrip(s) ==
    IF s = << >> THEN s
    ELSE IF s[Len(s)] \in Whitespace THEN rstrip(SubSeq(s, 1, Len(s) - 1)) ELSE s

strip(s) == rstrip(lstrip(s))

lowerChar(c) ==
    CASE c = "Q" -> "q"
      [] c = "U" -> "u"
      [] c = "I" -> "i"
      [] c = "T" -> "t"
      [] c = "E" -> "e"
      [] c = "X" -> "x"
      [] OTHER   -> c

lower(s) == [j \in 1..Len(s) |-> lowerChar(s[j])]

ExitCommands == { <<"q">>, <<"q", "u", "i", "t">>, <<"e", "x", "i", "t">> }

Lines ==
    { << >>, <<" ">>, <<"\t", " ">>,
      <<"q">>, <<"Q">>, <<" ", "q", " ">>, <<"q", "u", "i", "t">>,
      <<"Q", "u", "I", "T">>, <<"e", "x", "i", "t">>,
      <<"\t", "E", "X", "I", "T", " ">>,
      <<"q", "q">>, <<"q", " ", "q">>, <<"q", "u", "i", "t", "s">>,
      <<"e", "x", "i">>, <<"h", "i">>, <<"x">> }

-----------------------------------------------------------------------------
(* Chat script: load_pdf_documents *)

loadVars == <<idx, all_documents, successful_loads, diagnostics>>

ingestVars == <<chunks, vector_db>>

loopVars == <<line, question, event, asked, failures, llm_calls, last_prompt>>

Diag(kind, p, i) == [kind |-> kind, path |-> p, index |-> i]

InLoadLoop == script = "chat" /\ pc = "load" /\ idx <= Len(pdf_paths)

\* else branch of os.path.exists: "File not found", next path
LoadMissing ==
    /\ InLoadLoop
    /\ ~PathExists(pdf_paths[idx])
    /\ diagnostics' = Append(diagnostics, Diag("not_found", pdf_paths[idx], idx))
    /\ idx' = idx + 1
    /\ UNCHANGED <<script, pc, pdf_paths, all_documents, successful_loads,
                   ingestVars, stages_done, exit_code, loopVars, visionVars>>

\* loader.load() returned: extend all_documents, count the file
LoadOk ==
    /\ InLoadLoop
    /\ PathExists(pdf_paths[idx])
    /\ ~LoadRaises(pdf_paths[idx])
    /\ all_documents' = all_documents \o LoadedPages(pdf_paths[idx])
    /\ successful_loads' = successful_loads + 1
    /\ diagnostics' = Append(diagnostics, Diag("loaded", pdf_paths[idx], idx))
    /\ idx' = idx + 1
    /\ UNCHANGED <<script, pc, pdf_paths, ingestVars, stages_done, exit_code,
                   loopVars, visionVars>>

\* Variant of LoadError: the load error ends the batch with sys.exit(1)
LoadError_Abort ==
    /\ InLoadLoop
    /\ PathExists(pdf_paths[idx])
    /\ LoadRaises(pdf_paths[idx])
    /\ diagnostics' = Append(diagnostics, Diag("error", pdf_paths[idx], idx))
    /\ pc' = "exited"
    /\ exit_code' = "1"
    /\ UNCHANGED <<script, pdf_paths, idx, all_documents, successful_loads,
                   ingestVars, stages_done, loopVars, visionVars>>

\* loader.load() raised: except Exception prints the error, next path
LoadError ==
    /\ InLoadLoop
    /\ PathExists(pdf_paths[idx])
    /\ LoadRaises(pdf_paths[idx])
    /\ diagnostics' = Append(diagnostics, Diag("error", pdf_paths[idx], idx))
    /\ idx' = idx + 1
    /\ UNCHANGED <<script, pc, pdf_paths, all_documents, successful_loads,
                   ingestVars, stages_done, exit_code, loopVars, visionVars>>

\* the test that decides between sys.exit(1) and returning all_documents
NothingLoaded == all_documents = << >>

\* Variant of LoadFinish: the emptiness test is missing, the list is returned
LoadFinish_NoCheck ==
    /\ script = "chat" /\ pc = "load" /\ idx > Len(pdf_paths)
    /\ diagnostics' = Append(diagnostics, Diag("total", "", idx))
    /\ pc' = "split"
    /\ stages_done' = Append(stages_done, "load")
    /\ UNCHANGED <<script, pdf_paths, idx, all_documents, successful_loads,
                   ingestVars, exit_code, loopVars, visionVars>>

\* after the loop: sys.exit(1) when nothing was loaded (SystemExit is not an
\* Exception, so main's handlers let it through), else return all_documents
LoadFinish ==
    /\ script = "chat" /\ pc = "load" /\ idx > Len(pdf_paths)
    /\ IF NothingLoaded
       THEN /\ diagnostics' = Append(diagnostics, Diag("fatal", "", idx))
            /\ pc' = "exited"
            /\ exit_code' = "1"
            /\ UNCHANGED stages_done
       ELSE /\ diagnostics' = Append(diagnostics, Diag("total", "", idx))
            /\ pc' = "split"
            /\ stages_done' = Append(stages_done, "load")
            /\ UNCHANGED exit_code
    /\ UNCHANGED <<script, pdf_paths, idx, all_documents, successful_loads,
                   ingestVars, loopVars, visionVars>>

-----------------------------------------------------------------------------
(* Chat script: the stages of main after loading *)

SplitDocuments ==
    /\ script = "chat" /\ pc = "split"
    /\ chunks' = SplitAll(all_documents)
    /\ stages_done' = Append(stages_done, "split")
    /\ pc' = "vectordb"
    /\ UNCHANGED <<script, pdf_paths, loadVars, vector_db, exit_code, loopVars,
                   visionVars>>

CreateVectorDatabase ==
    /\ script = "chat" /\ pc = "vectordb"
    /\ vector_db' = chunks
    /\ stages_done' = Append(stages_done, "vectordb")
    /\ pc' = "llm"
    /\ UNCHANGED <<script, pdf_paths, loadVars, chunks, exit_code, loopVars,
                   visionVars>>

InitializeLlm ==
    /\ script = "chat" /\ pc = "llm"
    /\ stages_done' = Append(stages_done, "llm")
    /\ pc' = "chain"
    /\ UNCHANGED <<script, pdf_paths, loadVars, ingestVars, exit_code, loopVars,
                   visionVars>>

CreateRagChain ==
    /\ script = "chat" /\ pc = "chain"
    /\ stages_done' = Append(stages_done, "chain")
    /\ pc' = "prompt"
    /\ UNCHANGED <<script, pdf_paths, loadVars, ingestVars, exit_code, loopVars,
                   visionVars>>

\* Variant of FatalError: the handler prints the error and forgets sys.exit(1)
FatalError_NoExit ==
    /\ pc' = "exited"
    /\ exit_code' = "0"
    /\ event' = "fatal"
    /\ UNCHANGED stages_done

\* main: except Exception -> "Fatal error", sys.exit(1)
FatalError ==
    /\ pc' = "exited"
    /\ exit_code' = "1"
    /\ event' = "fatal"
    /\ UNCHANGED stages_done

\* a stage of main after loading raises an Exception
StageRaises ==
    /\ script = "chat" /\ pc \in {"split", "vectordb", "llm", "chain"}
    /\ FatalError
    /\ UNCHANGED <<script, pdf_paths, loadVars, ingestVars, line, question, asked,
                   failures, llm_calls, last_prompt, visionVars>>

\* main: except KeyboardInterrupt -> sys.exit(0); the interrupt arrives while
\* main is inside a library call (loader.load, a later stage, rag_chain.invoke)
MainInterrupted ==
    /\ script = "chat"
    /\ \/ InLoadLoop /\ PathExists(pdf_paths[idx])
       \/ pc \in {"split", "vectordb", "llm", "chain", "invoke"}
    /\ event' = IF pc = "invoke" THEN "query_interrupt" ELSE "interrupt"
    /\ pc' = "exited"
    /\ exit_code' = "0"
    /\ UNCHANGED <<script, pdf_paths, loadVars, ingestVars, stages_done,
                   line, question, asked, failures, llm_calls, last_prompt, visionVars>>

-----------------------------------------------------------------------------
(* Chat script: run_interactive_chat *)

\* Variant of IsExitCommand: the comparison forgets .lower()
IsExitCommand_CaseSensitive(q) == q \in ExitCommands

\* question.lower() in ['q', 'quit', 'exit']
IsExitCommand(q) == lower(q) \in ExitCommands

\* input(...).strip() returned a line
ReadQuestion ==
    /\ script = "chat" /\ pc = "prompt" /\ asked < MaxQuestions
    /\ \E l \in Lines :
         LET q == strip(l)
         IN  /\ line' = l
             /\ question' = q
             /\ asked' = asked + 1
             /\ IF IsExitCommand(q)
                THEN /\ pc' = "exited"
                     /\ exit_code' = "0"
                     /\ event' = "exit_command"
                     /\ UNCHANGED <<llm_calls, last_prompt>>
                ELSE IF q = << >>
                THEN /\ pc' = "prompt"
                     /\ event' = "empty"
                     /\ UNCHANGED <<exit_code, llm_calls, last_prompt>>
                ELSE /\ pc' = "invoke"
                     /\ event' = "question"
                     /\ llm_calls' = 0
                     /\ last_prompt' = NoPrompt
                     /\ UNCHANGED exit_code
    /\ UNCHANGED <<script, pdf_paths, loadVars, ingestVars, stages_done,
                   failures, visionVars>>

\* input(...) raised KeyboardInterrupt or EOFError: goodbye, break
PromptInterrupted ==
    /\ script = "chat" /\ pc = "prompt"
    /\ event' = "prompt_interrupt"
    /\ pc' = "exited"
    /\ exit_code' = "0"
    /\ UNCHANGED <<script, pdf_paths, loadVars, ingestVars, stages_done,
                   line, question, asked, failures, llm_calls, last_prompt, visionVars>>

\* the prompt the chain hands to the llm: {"context": retriever | format_docs,
\* "question": RunnablePassthrough()} | prompt
ChainPrompt(docs, q) == [context |-> format_docs(docs), question |-> q, sent |-> TRUE]

\* rag_chain.invoke(question) returned: retrieve, format, prompt, llm, parse
InvokeAnswered ==
    /\ script = "chat" /\ pc = "invoke"
    /\ \E docs \in TopK(vector_db, RETRIEVER_K) :
         last_prompt' = ChainPrompt(docs, question)
    /\ llm_calls' = llm_calls + 1
    /\ event' = "answered"
    /\ failures' = 0
    /\ pc' = "prompt"
    /\ UNCHANGED <<script, pdf_paths, loadVars, ingestVars, stages_done,
                   exit_code, line, question, asked, visionVars>>

\* Variant of ReportError: the handler leaves the loop after reporting
ReportError_Break ==
    /\ event' = "error"
    /\ failures' = failures + 1
    /\ pc' = "exited"
    /\ exit_code' = "1"

\* except Exception in the loop: print the error, "Please try again", and fall
\* through to the next iteration of while True
ReportError ==
    /\ event' = "error"
    /\ failures' = failures + 1
    /\ pc' = "prompt"
    /\ UNCHANGED exit_code

\* rag_chain.invoke raised in the retriever (embedding or search): no llm call
InvokeRetrieverError ==
    /\ script = "chat" /\ pc = "invoke"
    /\ ReportError
    /\ UNCHANGED <<script, pdf_paths, loadVars, ingestVars, stages_done,
                   line, question, asked, llm_calls, last_prompt, visionVars>>

\* rag_chain.invoke raised in the llm call, after retrieval
InvokeLlmError ==
    /\ script = "chat" /\ pc = "invoke"
    /\ \E docs \in TopK(vector_db, RETRIEVER_K) :
         last_prompt' = ChainPrompt(docs, question)
    /\ llm_calls' = llm_calls + 1
    /\ ReportError
    /\ UNCHANGED <<script, pdf_paths, loadVars, ingestVars, stages_done,
                   line, question, asked, visionVars>>

-----------------------------------------------------------------------------
(* Vision script: ingest_pdf *)

PDF_FILE == "scan.pdf"

\* Variant of PageDocument: the page tag is the position among the successes
PageDocument_Position(i, file_path) ==
    [page |-> Len(documents) + 1, source |-> file_path]

\* Document(page_content=response.content, metadata={"page": i+1, "source": file_path})
PageDocument(i, file_path) == [page |-> i + 1, source |-> file_path]

\* the store found on disk when the run starts holds some earlier ingestion
StoredBefore(n) == [j \in 1..n |-> PageDocument(j - 1, PDF_FILE)]

ingestState == <<pages, page_i, failed_pages, documents>>

queryState == <<results, gen_calls>>

\* except Exception of the execution block: "Ingestion failed", exit(1)
IngestionFailed ==
    /\ vpc' = "exited"
    /\ vexit' = "1"

\* Variant of Startup: ingestion runs whether or not the store exists
Startup_AlwaysIngest ==
    /\ script = "vision" /\ vpc = "start"
    /\ IF ~poppler_exists
       THEN /\ vpc' = "exited"
            /\ vexit' = "1"
            /\ UNCHANGED vlog
       ELSE /\ vpc' = "ingest"
            /\ vlog' = Append(vlog, "ingest_pdf")
            /\ UNCHANGED vexit
    /\ UNCHANGED <<script, chatVars, poppler_exists, store_at_start,
                   store_exists, store_docs, ingestState, queryState>>

\* The execution block up to the call it makes next: the Poppler check, then
\* "Run ingestion only if DB doesn't exist".
Startup ==
    /\ script = "vision" /\ vpc = "start"
    /\ IF ~poppler_exists
       THEN /\ vpc' = "exited"
            /\ vexit' = "1"
            /\ UNCHANGED vlog
       ELSE IF ~store_exists
       THEN /\ vpc' = "ingest"
            /\ vlog' = Append(vlog, "ingest_pdf")
            /\ UNCHANGED vexit
       ELSE /\ vpc' = "query"
            /\ vlog' = Append(vlog, "query_rag")
            /\ UNCHANGED vexit
    /\ UNCHANGED <<script, chatVars, poppler_exists, store_at_start,
                   store_exists, store_docs, ingestState, queryState>>

\* ingest_pdf: the PDF is missing (FileNotFoundError) or convert_from_path
\* raised and was re-raised; either way the execution block's handler runs
IngestRaises ==
    /\ script = "vision" /\ vpc = "ingest"
    /\ IngestionFailed
    /\ UNCHANGED <<script, chatVars, poppler_exists, store_at_start,
                   store_exists, store_docs, ingestState, vlog, queryState>>

\* convert_from_path returned n page images
ConvertOk ==
    /\ script = "vision" /\ vpc = "ingest"
    /\ \E n \in 0..MaxPages : pages' = n
    /\ page_i' = 0
    /\ vpc' = "pages"
    /\ UNCHANGED <<script, chatVars, poppler_exists, store_at_start,
                   store_exists, store_docs, failed_pages, documents, vlog,
                   vexit, queryState>>

InPageLoop == script = "vision" /\ vpc = "pages" /\ page_i < pages

\* vision_llm.invoke returned: append the page's Document
PageOk ==
    /\ InPageLoop
    /\ documents' = Append(documents, PageDocument(page_i, PDF_FILE))
    /\ page_i' = page_i + 1
    /\ vlog' = Append(vlog, "vision")
    /\ UNCHANGED <<script, chatVars, vpc, poppler_exists, store_at_start,
                   store_exists, store_docs, pages, failed_pages, vexit,
                   queryState>>

\* except Exception in the page loop: print the error, continue
PageSkipped ==
    /\ page_i' = page_i + 1
    /\ failed_pages' = failed_pages \cup {page_i + 1}
    /\ UNCHANGED <<vpc, vexit, documents>>

\* vision_llm.invoke raised for this page
PageFails ==
    /\ InPageLoop
    /\ PageSkipped
    /\ vlog' = Append(vlog, "vision")
    /\ UNCHANGED <<script, chatVars, poppler_exists, store_at_start,
                   store_exists, store_docs, pages, queryState>>

\* ingest_pdf returns documents; the block calls create_rag_db(extracted_docs)
IngestReturn ==
    /\ script = "vision" /\ vpc = "pages" /\ page_i = pages
    /\ vpc' = "create"
    /\ vlog' = Append(vlog, "create_rag_db")
    /\ UNCHANGED <<script, chatVars, poppler_exists, store_at_start,
                   store_exists, store_docs, ingestState, vexit, queryState>>

-----------------------------------------------------------------------------
(* Vision script: create_rag_db *)

\* if not docs: raise ValueError("No documents to create database from")
CreateNoDocuments ==
    /\ script = "vision" /\ vpc = "create"
    /\ documents = << >>
    /\ IngestionFailed
    /\ UNCHANGED <<script, chatVars, poppler_exists, store_at_start,
                   store_exists, store_docs, ingestState, vlog, queryState>>

\* Chroma.from_documents(..., persist_directory=CHROMA_PATH) returned; the
\* block prints "Ingestion complete" and goes on to the query
CreateOk ==
    /\ script = "vision" /\ vpc = "create"
    /\ documents # << >>
    /\ store_docs' = documents
    /\ store_exists' = TRUE
    /\ vlog' = vlog \o <<"store_write", "query_rag">>
    /\ vpc' = "query"
    /\ UNCHANGED <<script, chatVars, poppler_exists, store_at_start,
                   ingestState, vexit, queryState>>

\* OllamaEmbeddings / Chroma.from_documents raised; the directory may or may
\* not have been created before the failure
CreateRaises ==
    /\ script = "vision" /\ vpc = "create"
    /\ documents # << >>
    /\ \E made \in BOOLEAN : store_exists' = made
    /\ IngestionFailed
    /\ UNCHANGED <<script, chatVars, poppler_exists, store_at_start,
                   store_docs, ingestState, vlog, queryState>>

-----------------------------------------------------------------------------
(* Vision script: query_rag, called by the execution block with no handler *)

\* an exception leaves query_rag and the execution block: traceback
Uncaught ==
    /\ vpc' = "exited"
    /\ vexit' = "uncaught"

\* query_rag ran to its end (or returned early); the script ends normally
Finished ==
    /\ vpc' = "exited"
    /\ vexit' = "0"

\* the embedding of the query, the opening of the store or similarity_search
\* raised (or the store directory is missing: FileNotFoundError)
QuerySearchRaises ==
    /\ script = "vision" /\ vpc = "query"
    /\ Uncaught
    /\ UNCHANGED <<script, chatVars, poppler_exists, store_at_start,
                   store_exists, store_docs, ingestState, vlog, queryState>>

\* similarity_search(query, k=3) returned nothing: "No relevant documents
\* found.", return
QueryNoResults ==
    /\ script = "vision" /\ vpc = "query" /\ store_exists
    /\ << >> \in TopK(store_docs, QUERY_K)
    /\ results' = << >>
    /\ Finished
    /\ UNCHANGED <<script, chatVars, poppler_exists, store_at_start,
                   store_exists, store_docs, ingestState, vlog, gen_calls>>

\* results found, llm.invoke(prompt) returned: the answer is printed
QueryAnswered ==
    /\ script = "vision" /\ vpc = "query" /\ store_exists
    /\ \E r \in TopK(store_docs, QUERY_K) : r # << >> /\ results' = r
    /\ gen_calls' = gen_calls + 1
    /\ vlog' = Append(vlog, "generate")
    /\ Finished
    /\ UNCHANGED <<script, chatVars, poppler_exists, store_at_start,
                   store_exists, store_docs, ingestState>>

\* results found, llm.invoke(prompt) raised
QueryGenerationRaises ==
    /\ script = "vision" /\ vpc = "query" /\ store_exists
    /\ \E r \in TopK(store_docs, QUERY_K) : r # << >> /\ results' = r
    /\ gen_calls' = gen_calls + 1
    /\ vlog' = Append(vlog, "generate")
    /\ Uncaught
    /\ UNCHANGED <<script, chatVars, poppler_exists, store_at_start,
                   store_exists, store_docs, ingestState>>

-----------------------------------------------------------------------------
(* Specification *)

ChatIdle ==
    /\ idx = 1 /\ all_documents = << >> /\ successful_loads = 0
    /\ diagnostics = << >> /\ chunks = << >> /\ vector_db = << >>
    /\ stages_done = << >> /\ exit_code = "none"
    /\ line = << >> /\ question = << >>
    /\ event = "none" /\ asked = 0 /\ failures = 0 /\ llm_calls = 0
    /\ last_prompt = NoPrompt

VisionIdle ==
    /\ pages = 0 /\ page_i = 0 /\ failed_pages = {} /\ documents = << >>
    /\ vlog = << >> /\ vexit = "none" /\ results = << >> /\ gen_calls = 0

Init ==
    /\ script \in {"chat", "vision"}
    /\ ChatIdle
    /\ VisionIdle
    /\ IF script = "chat"
       THEN /\ pc = "load"
            /\ pdf_paths \in SeqsUpTo(Paths, MaxPaths)
            /\ vpc = "idle"
            /\ poppler_exists = FALSE /\ store_at_start = FALSE
            /\ store_exists = FALSE /\ store_docs = << >>
       ELSE /\ pc = "idle"
            /\ pdf_paths = << >>
            /\ vpc = "start"
            /\ poppler_exists \in BOOLEAN
            /\ store_exists \in BOOLEAN
            /\ store_at_start = store_exists
            /\ IF store_exists
               THEN \E n \in 0..MaxStored : store_docs = StoredBefore(n)
               ELSE store_docs = << >>

Next ==
    \/ LoadMissing \/ LoadOk \/ LoadError \/ LoadFinish
    \/ SplitDocuments \/ CreateVectorDatabase \/ InitializeLlm \/ CreateRagChain
    \/ StageRaises \/ MainInterrupted
    \/ ReadQuestion \/ PromptInterrupted
    \/ InvokeAnswered \/ InvokeRetrieverError \/ InvokeLlmError
    \/ Startup \/ IngestRaises \/ ConvertOk \/ PageOk \/ PageFails \/ IngestReturn
    \/ CreateNoDocuments \/ CreateOk \/ CreateRaises
    \/ QuerySearchRaises \/ QueryNoResults \/ QueryAnswered
    \/ QueryGenerationRaises

Spec == Init /\ [][Next]_vars

-----------------------------------------------------------------------------
(* Properties of load_pdf_documents *)

Skipped(p) == ~PathExists(p) \/ LoadRaises(p)

LoadsWithPages(p) == ~Skipped(p) /\ LoadedPages(p) # << >>

\* the pages of the files of `paths` that load, file by file
RECURSIVE PagesOfLoaded(_)
PagesOfLoaded(paths) ==
    IF paths = << >> THEN << >>
    ELSE (IF Skipped(Head(paths)) THEN << >> ELSE LoadedPages(Head(paths)))
         \o PagesOfLoaded(Tail(paths))

SkipKind(p) == IF ~PathExists(p) THEN "not_found" ELSE "error"

\* the skip diagnostics printed for position i of the input list
SkipDiagnostics(i) ==
    { j \in DOMAIN diagnostics :
        diagnostics[j].index = i /\ diagnostics[j].kind \in {"not_found", "error"} }

InterruptedWhileLoading == event = "interrupt" /\ stages_done = << >>

\* C1: for a path list in which at least one file loads with pages, every
\* missing path and every path whose load raises is skipped with exactly one
\* diagnostic of its kind (and no other path gets one), the batch is never
\* aborted by a skip (the loop leaves only after the last path), and the list
\* returned is the concatenation of the pages of exactly the files that
\* loaded, in list order, each file's pages in document order.
C1_LoaderSkipsAndConcatenates ==
    (script = "chat" /\ \E i \in DOMAIN pdf_paths : LoadsWithPages(pdf_paths[i]))
    => /\ all_documents = PagesOfLoaded(SubSeq(pdf_paths, 1, idx - 1))
       /\ \A i \in 1..(idx - 1) :
            IF Skipped(pdf_paths[i])
            THEN /\ Cardinality(SkipDiagnostics(i)) = 1
                 /\ \A j \in SkipDiagnostics(i) :
                      /\ diagnostics[j].kind = SkipKind(pdf_paths[i])
                      /\ diagnostics[j].path = pdf_paths[i]
            ELSE SkipDiagnostics(i) = {}
       /\ (pc # "load" /\ ~InterruptedWhileLoading)
          => /\ idx = Len(pdf_paths) + 1
             /\ stages_done # << >>
             /\ all_documents = PagesOfLoaded(pdf_paths)

\* one valid and one missing path: the valid file's two pages, one skip line
C1_Witness ==
    /\ script = "chat"
    /\ pdf_paths = <<"text.pdf", "missing.pdf">>
    /\ pc = "split"
    /\ all_documents = LoadedPages("text.pdf")
    /\ Cardinality({ j \in DOMAIN diagnostics :
                       diagnostics[j].kind \in {"not_found", "error"} }) = 1

NoPathExists == \A i \in DOMAIN pdf_paths : ~PathExists(pdf_paths[i])

\* C2: with an empty path list or only nonexistent paths the loader yields no
\* text unit and the process ends with exit code 1 after the fatal diagnostic,
\* the exit not passing through main's generic handler, and without the
\* chunker, the vector store, the llm initialisation or the chat loop running.
C2_NoInputIsFatal ==
    (script = "chat" /\ NoPathExists)
    => /\ all_documents = << >>
       /\ successful_loads = 0
       /\ stages_done = << >>
       /\ chunks = << >> /\ vector_db = << >>
       /\ asked = 0 /\ llm_calls = 0
       /\ event = "none"
       /\ pc \in {"load", "exited"}
       /\ pc = "exited"
          => /\ exit_code = "1"
             /\ diagnostics[Len(diagnostics)].kind = "fatal"
             /\ Len(diagnostics) = Len(pdf_paths) + 1
       /\ pc = "load" => exit_code = "none"

C2_Witness ==
    /\ script = "chat"
    /\ pdf_paths = <<"missing.pdf", "missing.pdf">>
    /\ pc = "exited"
    /\ exit_code = "1"

\* C3: the loader ends the process with exit code 1 only if no file loaded:
\* once a load call has returned (successful_loads >= 1), even with no pages,
\* the loader returns normally.
C3_ExitOnlyIfNoFileLoaded ==
    (script = "chat" /\ successful_loads >= 1)
    => ~(pc = "exited" /\ exit_code = "1" /\ stages_done = << >>)

-----------------------------------------------------------------------------
(* Properties of run_interactive_chat and main *)

AllStages == <<"load", "split", "vectordb", "llm", "chain">>

LoopStarted == stages_done = AllStages

\* C4: a question whose invoke raised is reported, the loop is back at the
\* prompt with the process still running, whatever the number of consecutive
\* failing questions so far.
C4_QueryErrorKeepsLoopAlive ==
    (script = "chat" /\ event = "error")
    => /\ pc = "prompt"
       /\ exit_code = "none"
       /\ failures >= 1
       /\ LoopStarted

C4_Witness ==
    /\ script = "chat"
    /\ event = "error"
    /\ failures = 3
    /\ pc = "prompt"

UpperChar(c) ==
    CASE c = "q" -> "Q"
      [] c = "u" -> "U"
      [] c = "i" -> "I"
      [] c = "t" -> "T"
      [] c = "e" -> "E"
      [] c = "x" -> "X"
      [] OTHER   -> c

\* the line is one of q, quit, exit in any letter case, between whitespace
NamesExitCommand(l) ==
    \E c \in ExitCommands : \E a \in 0..Len(l) :
        /\ a + Len(c) <= Len(l)
        /\ \A j \in 1..Len(l) :
             IF j <= a \/ j > a + Len(c)
             THEN l[j] \in Whitespace
             ELSE l[j] \in {c[j - a], UpperChar(c[j - a])}

LoopEvents == {"exit_command", "prompt_interrupt", "query_interrupt",
               "empty", "question", "answered", "error"}

\* what C8 shares with its amended form: an entered line ends the loop exactly
\* when it names an exit command, and the exit codes
LoopExitRules ==
    /\ (script = "chat" /\ LoopStarted /\ event \in LoopEvents \ {"prompt_interrupt"}
        /\ asked > 0)
       => /\ (event = "exit_command") = NamesExitCommand(line)
          /\ event = "exit_command" => pc = "exited"
          /\ event \in {"empty", "question", "answered", "error"} => pc # "exited"
    /\ (script = "chat" /\ LoopStarted /\ pc = "exited") => exit_code = "0"
    /\ (script = "chat" /\ exit_code = "1") => (~LoopStarted /\ asked = 0)

\* C8 as stated: the loop ends exactly on an exit command (trimmed, any case)
\* or on an interrupt / end of input at the prompt; the process then exits
\* with 0; exit code 1 only comes from a startup failure before the loop.
C8_LoopEndsOnlyAtPrompt ==
    /\ LoopExitRules
    /\ (script = "chat" /\ LoopStarted /\ pc = "exited")
       => event \in {"exit_command", "prompt_interrupt"}

\* C8 amended: the loop also ends when the interrupt arrives while a question
\* is being answered (main's KeyboardInterrupt handler, exit code 0).
C8_LoopEndsOnExitOrInterrupt ==
    /\ LoopExitRules
    /\ (script = "chat" /\ LoopStarted)
       => (pc = "exited")
          = (event \in {"exit_command", "prompt_interrupt", "query_interrupt"})

C8_Witness ==
    /\ script = "chat"
    /\ line = <<"\t", "E", "X", "I", "T", " ">>
    /\ asked = 2
    /\ pc = "exited"
    /\ exit_code = "0"

IsPrefix(a, b) == Len(a) <= Len(b) /\ SubSeq(b, 1, Len(a)) = a

-----------------------------------------------------------------------------
(* Properties of the vision script *)

Occurrences(log, what) == Cardinality({ j \in DOMAIN log : log[j] = what })

Position(log, what) == CHOOSE j \in DOMAIN log : log[j] = what

\* C5: no provider error raised during query_rag crashes the process: the
\* execution block never ends with an uncaught exception.
C5_QueryErrorsAreCaught ==
    script = "vision" => vexit # "uncaught"

\* C6: when the store directory exists at startup, ingest_pdf and
\* create_rag_db are never called (no vision call, no store write) and the
\* query runs against the store as found; when it does not exist, ingestion
\* runs exactly once and the query runs only after it succeeded; nothing is
\* ever written into a store that existed at startup.
C6_IngestOnlyWithoutStore ==
    script = "vision"
    => /\ store_at_start
          => /\ \A j \in DOMAIN vlog : vlog[j] \in {"query_rag", "generate"}
             /\ documents = << >> /\ pages = 0 /\ page_i = 0
             /\ store_exists
             /\ store_docs = StoredBefore(Len(store_docs))
             /\ (vpc \in {"query", "exited"} /\ poppler_exists)
                => Occurrences(vlog, "query_rag") = 1
       /\ ~store_at_start
          => /\ Occurrences(vlog, "ingest_pdf") <= 1
             /\ Occurrences(vlog, "create_rag_db") <= 1
             /\ Occurrences(vlog, "store_write") <= 1
             /\ (vpc # "start" /\ poppler_exists)
                => Occurrences(vlog, "ingest_pdf") = 1
             /\ Occurrences(vlog, "query_rag") > 0
                => /\ Occurrences(vlog, "store_write") = 1
                   /\ Position(vlog, "ingest_pdf") < Position(vlog, "create_rag_db")
                   /\ Position(vlog, "create_rag_db") < Position(vlog, "store_write")
                   /\ Position(vlog, "store_write") < Position(vlog, "query_rag")
                   /\ store_exists
                   /\ store_docs = documents
       /\ Occurrences(vlog, "store_write") > 0 => ~store_at_start

C6_Witness ==
    /\ script = "vision"
    /\ store_at_start
    /\ store_docs = StoredBefore(2)
    /\ vpc = "exited"
    /\ vexit = "0"
    /\ results # << >>
    /\ vlog = <<"query_rag", "generate">>

\* C7: in both query paths a retrieval of zero chunks is passed on to the
\* generation step as an empty context: the generation provider is invoked
\* once for the question.
C7_EmptyRetrievalStillGenerates ==
    /\ (script = "chat" /\ event = "answered" /\ vector_db = << >>)
       => (llm_calls = 1 /\ last_prompt.sent /\ last_prompt.context = << >>
           /\ last_prompt.question = question)
    /\ (script = "vision" /\ vexit = "0" /\ Occurrences(vlog, "query_rag") = 1
        /\ results = << >>)
       => gen_calls = 1

\* the pages the loop has gone through whose transcription succeeded
RECURSIVE SucceededUpTo(_)
SucceededUpTo(n) ==
    IF n = 0 THEN << >>
    ELSE SucceededUpTo(n - 1)
         \o (IF n \in failed_pages THEN << >>
             ELSE << [page |-> n, source |-> PDF_FILE] >>)

PageLoopDone == script = "vision" /\ Occurrences(vlog, "create_rag_db") = 1

\* C9: a page whose transcription fails is skipped and the later pages are
\* still processed; the documents are exactly the pages that succeeded, in
\* increasing page order, each tagged with its own 1-based page number and
\* the source path; when every page fails no store is created and the run
\* ends with exit code 1 before any query.
C9_PageFailuresAreSkipped ==
    script = "vision"
    => /\ failed_pages \subseteq 1..page_i
       /\ page_i <= pages
       /\ documents = SucceededUpTo(page_i)
       /\ Occurrences(vlog, "vision") = page_i
       /\ PageLoopDone => page_i = pages
       /\ (PageLoopDone /\ failed_pages = 1..pages)
          => /\ ~store_exists
             /\ store_docs = << >>
             /\ Occurrences(vlog, "store_write") = 0
             /\ Occurrences(vlog, "query_rag") = 0
             /\ gen_calls = 0
             /\ vpc = "exited" => vexit = "1"

C9_Witness ==
    /\ script = "vision"
    /\ pages = 3
    /\ failed_pages = {2}
    /\ vpc = "query"
    /\ documents = << [page |-> 1, source |-> PDF_FILE],
                      [page |-> 3, source |-> PDF_FILE] >>
    /\ store_docs = documents

\* C10: the stages of both scripts run one after the other, each on the full
\* output of the one before; no question is taken before the last ingestion
\* stage returned; an Exception in an ingestion stage ends the run with exit
\* code 1 and no query is ever issued.
C10_StagesInSequence ==
    /\ script = "chat"
       => /\ IsPrefix(stages_done, AllStages)
          /\ Len(stages_done) >= 2 => chunks = SplitAll(all_documents)
          /\ Len(stages_done) < 2 => chunks = << >>
          /\ Len(stages_done) >= 3 => vector_db = chunks
          /\ Len(stages_done) < 3 => vector_db = << >>
          /\ (asked > 0 \/ llm_calls > 0 \/ last_prompt.sent
              \/ pc \in {"prompt", "invoke"}) => LoopStarted
          /\ event = "fatal"
             => /\ pc = "exited" /\ exit_code = "1"
                /\ ~LoopStarted
                /\ asked = 0 /\ llm_calls = 0 /\ ~last_prompt.sent
    /\ script = "vision"
       => /\ Occurrences(vlog, "create_rag_db") > 0
             => (page_i = pages /\ Occurrences(vlog, "vision") = pages
                 /\ Position(vlog, "ingest_pdf") = 1)
          /\ (Occurrences(vlog, "query_rag") > 0 /\ ~store_at_start)
             => (vlog[Len(documents) + Cardinality(failed_pages) + 2] = "create_rag_db"
                 /\ store_docs = documents /\ documents # << >>)
          /\ Occurrences(vlog, "generate") > 0
             => Position(vlog, "query_rag") < Position(vlog, "generate")
          /\ vexit = "1"
             => (Occurrences(vlog, "query_rag") = 0 /\ gen_calls = 0
                 /\ results = << >>)
          /\ (vpc = "exited" /\ Occurrences(vlog, "query_rag") = 0) => vexit = "1"

\* the embedding provider is unreachable while the vector store is built
C10_Witness ==
    /\ script = "chat"
    /\ stages_done = <<"load", "split">>
    /\ chunks # << >>
    /\ event = "fatal"
    /\ exit_code = "1"

=============================================================================
